---- MODULE Spec2Model ----
(***************************************************************************)
(* Model of the Bible API serverless handlers: /api/bible-query            *)
(* (api/bible-query.js), /api/generate-prayer (api/generate-prayer.js) and *)
(* the shared pipeline (api/_shared.js): embedding call, similarity        *)
(* search, verse enrichment, buffered completion and the SSE relay.        *)
(*                                                                         *)
(* One request is in flight at a time; the module-level verse cache        *)
(* survives from one request to the next.  An action is the code that runs *)
(* between two awaits of a handler.  Scores are scaled by ten (0.9 is 9).  *)
(* A JavaScript string concatenation of stream fragments is the sequence   *)
(* of the fragments.  A metadata field that is absent is the empty string: *)
(* every use of the metadata in the code goes through `x || default`, which *)
(* treats the two alike.                                                   *)
(***************************************************************************)
EXTENDS Integers, Sequences, FiniteSets, TLC

\* ---------------------------------------------------------------- bounds
MaxMatches == 2
MaxLines == 2
MaxReads == 2

\* ------------------------------------------------------------- utilities
SeqsUpTo(S, n) == UNION {[1..k -> S] : k \in 0..n}

Last(s) == s[Len(s)]

\* --------------------------------------------------- JavaScript coercions
\* a || b on strings: the empty (or absent) string is falsy
Or(a, b) == IF a = "" THEN b ELSE a

\* parseInt on the decimal strings the index metadata carries
ParseInt(s) ==
  CASE s = "0" -> 0
    [] s = "1" -> 1
    [] s = "2" -> 2
    [] s = "3" -> 3
    [] s = "8" -> 8
    [] s = "16" -> 16
    [] s = "23" -> 23
    [] s = "28" -> 28

\* String.prototype.trim on the texts of the model
Trim(s) == IF s = " " THEN "" ELSE s

\* ------------------------------------------------------------ _shared.js
Placeholder == "[Verse text not available in database]"

\* the records the similarity index may return (match.metadata, match.score)
IndexMatches ==
  { [book |-> "John", chapter |-> "3", verse |-> "16", startVerse |-> "",
     text |-> "For God so loved the world", score |-> 9],
    [book |-> "Romans", chapter |-> "8", verse |-> "28", startVerse |-> "",
     text |-> "", score |-> 7],
    [book |-> "Psalms", chapter |-> "23", verse |-> "", startVerse |-> "1",
     text |-> "", score |-> 7],
    [book |-> "", chapter |-> "1", verse |-> "2", startVerse |-> "",
     text |-> "", score |-> 0],
    [book |-> "Mark", chapter |-> "1", verse |-> "1", startVerse |-> "",
     text |-> " ", score |-> 7] }

\* the index answers with its matches ordered from most to least similar
ScoreSorted(s) == \A i \in 1..(Len(s) - 1) : s[i].score >= s[i + 1].score

QueryResults == { s \in SeqsUpTo(IndexMatches, MaxMatches) : ScoreSorted(s) }

MapMatchNoVerseCheck(match) ==
  LET result == [book |-> Or(match.book, ""),
                 chapter |-> ParseInt(Or(match.chapter, "0")),
                 verse |-> ParseInt(Or(Or(match.verse, match.startVerse), "0")),
                 text |-> Or(match.text, ""),
                 score |-> IF match.score = 0 THEN 0 ELSE match.score,
                 needsTextLookup |-> FALSE]
  IN IF result.text = "" /\ result.book # "" /\ result.chapter # 0
     THEN [result EXCEPT !.text = Placeholder, !.needsTextLookup = TRUE]
     ELSE result

\* the callback of results.matches.map in searchPinecone
MapMatch(match) ==
  LET result == [book |-> Or(match.book, ""),
                 chapter |-> ParseInt(Or(match.chapter, "0")),
                 verse |-> ParseInt(Or(Or(match.verse, match.startVerse), "0")),
                 text |-> Or(match.text, ""),
                 score |-> IF match.score = 0 THEN 0 ELSE match.score,
                 needsTextLookup |-> FALSE]
  IN IF result.text = "" /\ result.book # "" /\ result.chapter # 0
        /\ result.verse # 0
     THEN [result EXCEPT !.text = Placeholder, !.needsTextLookup = TRUE]
     ELSE result

searchPineconeReversed(results) ==
  [i \in 1..Len(results) |-> MapMatch(results[Len(results) + 1 - i])]

searchPinecone(results) == [i \in 1..Len(results) |-> MapMatch(results[i])]

\* embeddings-generator/bible-data.js as deployed
BibleData ==
  << [book |-> "John", chapter |-> 3, verse |-> 16,
      text |-> "For God so loved the world, that he gave his only begotten Son"],
     [book |-> "Romans", chapter |-> 8, verse |-> 28,
      text |-> "And we know that all things work together for good"],
     [book |-> "Psalms", chapter |-> 23, verse |-> 1, text |-> ""] >>

\* what the deployment holds at the dataset path: the dataset, an empty
\* array, or nothing loadable (no file, no bibleData array, or require throws)
FileStates == {"full", "empty", "unavailable"}

loadBibleDataReloading(cache, file) ==
  IF cache.loaded /\ Len(cache.data) > 0 THEN [ret |-> cache.data, cache |-> cache]
  ELSE IF file = "full"
       THEN [ret |-> BibleData, cache |-> [loaded |-> TRUE, data |-> BibleData]]
  ELSE IF file = "empty"
       THEN [ret |-> <<>>, cache |-> [loaded |-> TRUE, data |-> <<>>]]
  ELSE [ret |-> <<>>, cache |-> cache]

\* loadBibleData: the returned dataset and the cache afterwards
loadBibleData(cache, file) ==
  IF cache.loaded THEN [ret |-> cache.data, cache |-> cache]
  ELSE IF file = "full"
       THEN [ret |-> BibleData, cache |-> [loaded |-> TRUE, data |-> BibleData]]
  ELSE IF file = "empty"
       THEN [ret |-> <<>>, cache |-> [loaded |-> TRUE, data |-> <<>>]]
  ELSE [ret |-> <<>>, cache |-> cache]

\* bibleData.find(v => v.book === ref.book && ...): index of the first hit
FindVerse(bibleData, ref) ==
  LET hits == { i \in 1..Len(bibleData) :
                  /\ bibleData[i].book = ref.book
                  /\ bibleData[i].chapter = ref.chapter
                  /\ bibleData[i].verse = ref.verse }
  IN IF hits = {} THEN 0 ELSE CHOOSE i \in hits : \A j \in hits : i <= j

EnhanceRefOverwriting(bibleData, ref) ==
  LET i == FindVerse(bibleData, ref)
  IN IF i # 0
     THEN [ref EXCEPT !.text = bibleData[i].text]
     ELSE ref

EnhanceRef(bibleData, ref) ==
  LET i == FindVerse(bibleData, ref)
  IN IF i # 0 /\ bibleData[i].text # ""
     THEN [ref EXCEPT !.text = bibleData[i].text]
     ELSE ref

lookupVerseTextReversed(references, bibleData) ==
  IF Len(bibleData) = 0 THEN references
  ELSE [i \in 1..Len(references) |->
          EnhanceRef(bibleData, references[Len(references) + 1 - i])]

lookupVerseTextDropping(references, bibleData) ==
  IF Len(bibleData) = 0 THEN references
  ELSE LET e == [i \in 1..Len(references) |-> EnhanceRef(bibleData, references[i])]
       IN SelectSeq(e, LAMBDA r : ~r.needsTextLookup \/ r.text # Placeholder)

lookupVerseText(references, bibleData) ==
  IF Len(bibleData) = 0 THEN references
  ELSE [i \in 1..Len(references) |-> EnhanceRef(bibleData, references[i])]

\* references.filter(ref => ref.text && ref.text !== '')
ValidReferences(references) == SelectSeq(references, LAMBDA r : r.text # "")

\* generateResponse: references.filter(ref => ref.text && ref.text.trim() !== '')
TrimmedValidReferences(references) ==
  SelectSeq(references, LAMBDA r : r.text # "" /\ Trim(r.text) # "")

\* -------------------------------------------------- requests and upstreams
Endpoints == {"query", "prayer"}
\* api/index.js and api/status.js
AllEndpoints == Endpoints \cup {"index", "status"}
Methods == {"OPTIONS", "GET", "POST"}

\* req.body.query / req.body.prayerRequest: undefined, empty or a text
NoText == "<undefined>"
Texts == {NoText, "", "peace in troubled times"}

\* req.body.stream: absent, false, true, or a truthy value that is not true
StreamValues == {"absent", "false", "true", "truthy"}
IsTrue(s) == s = "true"
Truthy(s) == s \in {"true", "truthy"}

\* error.message of a rejected axios call
AxiosMsgs == {"Request failed with status code 429", "Network Error"}
FetchRejectMsg == "fetch failed"
NotOkMsg == "OpenAI API error: {\"error\":{\"message\":\"Rate limit reached\"}}"
ReadErrMsg == "terminated"
WriteErrMsg == "write after end"
HeadersSentMsg == "Cannot set headers after they are sent to the client"
InitErrMsg == "OPENAI_API_KEY environment variable is required"
\* the messages that contain a double quote
QuotedMsgs == {NotOkMsg}
BodyTypeErrMsg == "Cannot destructure property 'query' of 'req.body' as it is undefined."

\* choices[0].message.content of a buffered completion ("" when absent)
Completions == {"", "## Peace\n- **Trust** in God [1]"}
Null == "<null>"

\* the lines of one decoded chunk of the upstream completion stream
Fragments == {"Pe", "ace"}
Lines ==
  [kind : {"delta"}, c : Fragments]
  \cup [kind : {"nodelta", "malformed", "sentinel", "other"}, c : {""}]
Chunks == SeqsUpTo(Lines, MaxLines)

\* ------------------------------------------- calls on the response object
Entry(op, t, refs, n, s, enc) ==
  [op |-> op, t |-> t, refs |-> refs, n |-> n, s |-> s, enc |-> enc]

Status(code) == Entry("status", "", <<>>, code, "", "")
Json(t, refs, n, s) == Entry("json", t, refs, n, s, "json")
End == Entry("end", "", <<>>, 0, "", "")
\* res.write that throws: nothing reaches the client
WriteFail == Entry("writeFail", "", <<>>, 0, "", "")

\* data: ${JSON.stringify({references: references})}
ReferencesEvent(refs) == Entry("write", "references", refs, 0, "", "json")
\* data: ${JSON.stringify({type: "prayer_context", verseCount: n})}
ContextEvent(n) == Entry("write", "prayer_context", <<>>, n, "", "json")
\* data: {"content": ""}
PrimingEvent == Entry("write", "content", <<>>, 0, "", "raw")
\* data: ${JSON.stringify({ type: "references", references: references })}
TypedReferencesEvent(refs) == Entry("write", "typed_references", refs, 0, "", "json")
\* data: ${JSON.stringify({ content })}
ContentEvent(c) == Entry("write", "content", <<>>, 0, c, "json")
\* data: ${JSON.stringify({ error: error.message })}
ErrorEventJson(msg) == Entry("write", "error", <<>>, 0, msg, "json")
\* data: {"error": "${streamError.message}"}
ErrorEventRaw(msg) == Entry("write", "error", <<>>, 0, msg, "raw")
\* data: [DONE]
DoneEvent == Entry("write", "DONE", <<>>, 0, "", "raw")

\* headers go out with the first byte written
HeadersSent(log) == \E i \in 1..Len(log) : log[i].op = "write"

\* an upstream request: embedding, index query, buffered or streamed completion
Call(api, ctx, temp, maxTok) ==
  [api |-> api, ctx |-> ctx, temp |-> temp, maxTok |-> maxTok]

\* ------------------------------------------------------------------ state
VARIABLES
  pc,               \* where the handler is suspended: idle, embed, search,
                    \* complete, fetch, read, done
  via,              \* caller of the completion: the handler ("main") or
                    \* generatePrayerWithoutVerses ("fallback")
  endpoint, method, hasBody, text, stream,     \* the request
  responseStarted,  \* let responseStarted of the handler
  resLog,           \* the calls made on res, in order
  calls,            \* the upstream requests issued, in order
  matches,          \* results.matches of the index query
  references,       \* let references of the handler
  fullResponse,     \* let fullResponse of streamOpenAIResponse
  reads,            \* chunks read from the upstream stream
  failedCall,       \* the first call of the request that failed
  failMsg,          \* its error.message
  escaped,          \* an exception left the handler
  sinkOk,           \* the client is still connected: res.write succeeds
  bibleDataCache,   \* let bibleDataCache of _shared.js
  bibleFile,        \* the dataset file of the deployment
  credentials,      \* process.env: which of the two API keys are set
  unit              \* the last direct call of an exported function of
                    \* _shared.js, with its arguments and its result

vars == <<pc, via, endpoint, method, hasBody, text, stream, responseStarted,
          resLog, calls, matches, references, fullResponse, reads, failedCall,
          failMsg, escaped, sinkOk, bibleDataCache, bibleFile, credentials,
          unit>>

\* no exported function has been called directly
NoUnit ==
  [op |-> "none", matches |-> <<>>, refs |-> <<>>, out |-> <<>>, ds |-> <<>>,
   hit |-> FALSE, prevOut |-> <<>>, prevDs |-> <<>>, found |-> 0,
   lines |-> <<>>, log |-> <<>>, full |-> <<>>, n |-> 0,
   log2 |-> <<>>, full2 |-> <<>>]

\* the handler's part of the state as one record
Cur ==
  [pc |-> pc, via |-> via, responseStarted |-> responseStarted,
   resLog |-> resLog, calls |-> calls, matches |-> matches,
   references |-> references, fullResponse |-> fullResponse, reads |-> reads,
   failedCall |-> failedCall, failMsg |-> failMsg, escaped |-> escaped,
   cache |-> bibleDataCache]

Fresh ==
  [pc |-> "idle", via |-> "main", responseStarted |-> FALSE,
   resLog |-> <<>>, calls |-> <<>>, matches |-> <<>>,
   references |-> <<>>, fullResponse |-> <<>>, reads |-> 0,
   failedCall |-> "none", failMsg |-> "", escaped |-> FALSE,
   cache |-> bibleDataCache]

Set(c) ==
  /\ pc' = c.pc
  /\ via' = c.via
  /\ responseStarted' = c.responseStarted
  /\ resLog' = c.resLog
  /\ calls' = c.calls
  /\ matches' = c.matches
  /\ references' = c.references
  /\ fullResponse' = c.fullResponse
  /\ reads' = c.reads
  /\ failedCall' = c.failedCall
  /\ failMsg' = c.failMsg
  /\ escaped' = c.escaped
  /\ bibleDataCache' = c.cache

\* the first failure of a request is the one recorded
Failed(c, call, msg) ==
  IF c.failedCall = "none"
  THEN [c EXCEPT !.failedCall = call, !.failMsg = msg]
  ELSE c

\* --------------------------------------------------------- error handling
\* res.json(body): the call is made; with the headers already on the wire the
\* platform may refuse it by throwing (strict)
JsonThrows(log, strict) == strict /\ HeadersSent(log)

OuterCatchGeneric(c, msg, ok, strict) ==
  IF ~c.responseStarted
  THEN [c EXCEPT !.pc = "done",
                 !.resLog = @ \o <<Status(500), Json("error500", <<>>, 0, "Internal error")>>,
                 !.escaped = JsonThrows(c.resLog, strict)]
  ELSE IF ok
  THEN [c EXCEPT !.pc = "done",
                 !.resLog = @ \o <<ErrorEventRaw(msg), DoneEvent, End>>]
  ELSE [c EXCEPT !.pc = "done", !.resLog = @ \o <<WriteFail, End>>]

\* catch (error) of the handlers: bible-query.js 152-170, generate-prayer 201-219
OuterCatch(c, msg, ok, strict) ==
  IF ~c.responseStarted
  THEN [c EXCEPT !.pc = "done",
                 !.resLog = @ \o <<Status(500), Json("error500", <<>>, 0, msg)>>,
                 !.escaped = JsonThrows(c.resLog, strict)]
  ELSE IF ok
  THEN [c EXCEPT !.pc = "done",
                 !.resLog = @ \o <<ErrorEventRaw(msg), DoneEvent, End>>]
  ELSE [c EXCEPT !.pc = "done", !.resLog = @ \o <<WriteFail, End>>]

\* catch (streamError) of the handlers once responseStarted is set
InnerCatch(c, msg, ok, strict) ==
  IF ok
  THEN [c EXCEPT !.pc = "done",
                 !.resLog = @ \o <<ErrorEventRaw(msg), DoneEvent, End>>]
  ELSE OuterCatch([c EXCEPT !.resLog = Append(@, WriteFail)], WriteErrMsg,
                  ok, strict)

\* catch (error) of streamOpenAIResponse, which rethrows to its caller: the
\* handler's inner try (main) or generatePrayerWithoutVerses, which rethrows
\* to the handler's outer catch (fallback)
StreamFail(c, msg, ok, strict) ==
  LET c1 == IF ok THEN [c EXCEPT !.resLog = @ \o <<ErrorEventJson(msg), DoneEvent>>]
            ELSE [c EXCEPT !.resLog = Append(@, WriteFail)]
      m1 == IF ok THEN msg ELSE WriteErrMsg
  IN IF c.via = "main" THEN InnerCatch(c1, m1, ok, strict)
     ELSE OuterCatch(c1, m1, ok, strict)

\* streamOpenAIResponse returned fullResponse to its caller
StreamReturn(c, ok, strict) ==
  IF c.via = "main" THEN [c EXCEPT !.pc = "done"]
  ELSE \* generatePrayerWithoutVerses returns null; responseStarted is false
       LET c1 == [c EXCEPT !.resLog = Append(@, Json("fallbackPrayer", <<>>, 0, Null))]
       IN IF JsonThrows(c.resLog, strict)
          THEN OuterCatch(c1, HeadersSentMsg, ok, strict)
          ELSE [c1 EXCEPT !.pc = "done"]

\* --------------------------------------------------------------- pipeline
NoMatchAnswer == "I couldn't find any Bible verses related to your question. Please try a different question."
MissingTextAnswer == "I've found some relevant Bible passages, but the verse text is missing."
NoContentAnswer == "I couldn't find Bible verses with text content to answer your question."
NoResponse == "No response generated"
NoPrayer == "Unable to generate prayer at this time."

\* _shared.js lines 4-15: the module throws while loading unless both keys
\* are set
ModuleLoads(cred) == cred.openai /\ cred.pinecone

\* api/index.js imports nothing; the three other handlers require _shared.js
RequiresShared(e) == e \in {"query", "prayer", "status"}

\* api/index.js
IndexHandler(c, m) ==
  IF m = "OPTIONS"
  THEN [c EXCEPT !.pc = "done", !.resLog = <<Status(200), End>>]
  ELSE IF m # "GET"
  THEN [c EXCEPT !.pc = "done",
                 !.resLog = <<Status(405), Json("error405", <<>>, 0, "Method not allowed")>>]
  ELSE [c EXCEPT !.pc = "done",
                 !.resLog = <<Json("health", <<>>, 0, "Bible API Server is running on Vercel")>>]

\* api/status.js up to its first await
StatusEntry(c, m) ==
  IF m = "OPTIONS"
  THEN [c EXCEPT !.pc = "done", !.resLog = <<Status(200), End>>]
  ELSE IF m # "GET"
  THEN [c EXCEPT !.pc = "done",
                 !.resLog = <<Status(405), Json("error405", <<>>, 0, "Method not allowed")>>]
  ELSE [c EXCEPT !.pc = "describe", !.calls = <<Call("describe", <<>>, 0, 0)>>]

\* the handler up to its first await: method checks, validation, embedding call
HandlerEntry(c, m, b, t) ==
  IF m = "OPTIONS"
  THEN [c EXCEPT !.pc = "done", !.resLog = <<Status(200), End>>]
  ELSE IF m # "POST"
  THEN [c EXCEPT !.pc = "done",
                 !.resLog = <<Status(405), Json("error405", <<>>, 0, "Method not allowed")>>]
  ELSE IF ~b  \* const { query, stream = false } = undefined throws
  THEN OuterCatch(Failed(c, "body", BodyTypeErrMsg), BodyTypeErrMsg, TRUE, FALSE)
  ELSE IF t = NoText \/ t = ""
  THEN [c EXCEPT !.pc = "done",
                 !.resLog = <<Status(400), Json("error400", <<>>, 0, "required")>>]
  ELSE [c EXCEPT !.pc = "embed", !.calls = <<Call("embed", <<>>, 0, 0)>>]

\* generateResponse up to its await; the non-streaming tail of bible-query.js
QueryNonStream(c, refs) ==
  IF Len(TrimmedValidReferences(refs)) = 0
  THEN [c EXCEPT !.pc = "done",
                 !.resLog = Append(@, Json("answer", refs, 0, NoContentAnswer))]
  ELSE [c EXCEPT !.pc = "complete",
                 !.calls = Append(@, Call("complete", TrimmedValidReferences(refs), 7, 300))]

\* bible-query.js from the search result to the next await
QueryAfterSearch(c, refs0, st, ok, file) ==
  IF Len(refs0) = 0
  THEN [c EXCEPT !.pc = "done", !.references = refs0,
                 !.resLog = Append(@, Json("noMatches", <<>>, 0, NoMatchAnswer))]
  ELSE
    LET ld == loadBibleData(c.cache, file)
        refs == lookupVerseText(refs0, ld.ret)
        valid == ValidReferences(refs)
        c1 == [c EXCEPT !.references = refs, !.cache = ld.cache]
    IN IF Len(valid) = 0
       THEN [c1 EXCEPT !.pc = "done",
                       !.resLog = Append(@, Json("noText", refs, 0, MissingTextAnswer))]
       ELSE IF IsTrue(st)
       THEN IF ok
            THEN [c1 EXCEPT !.pc = "fetch", !.via = "main",
                            !.responseStarted = TRUE,
                            !.resLog = @ \o <<ReferencesEvent(refs), PrimingEvent,
                                              TypedReferencesEvent(refs)>>,
                            !.calls = Append(@, Call("fetch", valid, 7, 300))]
            ELSE \* the first write throws; responseStarted is still false
                 QueryNonStream(Failed([c1 EXCEPT !.resLog = Append(@, WriteFail)],
                                       "write", WriteErrMsg), refs)
       ELSE QueryNonStream(c1, refs)

\* generatePrayerResponse up to its await
PrayerNonStream(c, valid) ==
  [c EXCEPT !.pc = "complete", !.via = "main",
            !.calls = Append(@, Call("complete", valid, 8, 250))]

\* generatePrayerWithoutVerses up to its await
generatePrayerWithoutVerses(c, st, ok, strict) ==
  IF Truthy(st)
  THEN IF ok
       THEN [c EXCEPT !.pc = "fetch", !.via = "fallback",
                      !.resLog = @ \o <<ContextEvent(0), PrimingEvent,
                                        TypedReferencesEvent(<<>>)>>,
                      !.calls = Append(@, Call("fetch", <<>>, 7, 300))]
       ELSE OuterCatch(Failed([c EXCEPT !.resLog = Append(@, WriteFail)],
                              "write", WriteErrMsg), WriteErrMsg, ok, strict)
  ELSE [c EXCEPT !.pc = "complete", !.via = "fallback",
                 !.calls = Append(@, Call("complete", <<>>, 8, 250))]

\* generate-prayer.js from the search result to the next await
PrayerAfterSearch(c, refs0, st, ok, file, strict) ==
  IF Len(refs0) = 0
  THEN generatePrayerWithoutVerses([c EXCEPT !.references = refs0], st, ok, strict)
  ELSE
    LET ld == loadBibleData(c.cache, file)
        refs == lookupVerseText(refs0, ld.ret)
        valid == ValidReferences(refs)
        c1 == [c EXCEPT !.references = refs, !.cache = ld.cache]
    IN IF IsTrue(st)
       THEN IF ok
            THEN [c1 EXCEPT !.pc = "fetch", !.via = "main",
                            !.responseStarted = TRUE,
                            !.resLog = @ \o <<ContextEvent(Len(valid)), PrimingEvent,
                                              TypedReferencesEvent(<<>>)>>,
                            !.calls = Append(@, Call("fetch", valid, 7, 300))]
            ELSE PrayerNonStream(Failed([c1 EXCEPT !.resLog = Append(@, WriteFail)],
                                        "write", WriteErrMsg), valid)
       ELSE PrayerNonStream(c1, valid)

\* the buffered completion resolved: the res.json of each caller
CompleteOk(c, e, content) ==
  IF e = "query"
  THEN [c EXCEPT !.pc = "done",
                 !.resLog = Append(@, Json("answer", c.references, 0, Or(content, NoResponse)))]
  ELSE IF c.via = "main"
  THEN [c EXCEPT !.pc = "done",
                 !.resLog = Append(@, Json("prayer", <<>>, Len(ValidReferences(c.references)),
                                           Or(content, NoPrayer)))]
  ELSE [c EXCEPT !.pc = "done",
                 !.resLog = Append(@, Json("fallbackPrayer", <<>>, 0, Or(content, NoPrayer)))]

RECURSIVE ProcessLinesAborting(_, _, _, _)
ProcessLinesAborting(lines, log, full, ok) ==
  IF lines = <<>> THEN [log |-> log, full |-> full, thrown |-> FALSE]
  ELSE LET line == Head(lines) IN
    IF line.kind = "sentinel"
    THEN IF ok THEN ProcessLinesAborting(Tail(lines), Append(log, DoneEvent), full, ok)
         ELSE [log |-> Append(log, WriteFail), full |-> full, thrown |-> TRUE]
    ELSE IF line.kind = "delta"
    THEN IF ok THEN ProcessLinesAborting(Tail(lines), Append(log, ContentEvent(line.c)),
                                         Append(full, line.c), ok)
         ELSE [log |-> Append(log, WriteFail), full |-> full, thrown |-> TRUE]
    ELSE IF line.kind = "malformed"
    THEN [log |-> log, full |-> full, thrown |-> FALSE]
    ELSE ProcessLinesAborting(Tail(lines), log, full, ok)

\* the for loop of streamOpenAIResponse over the lines of one chunk
RECURSIVE ProcessLines(_, _, _, _)
ProcessLines(lines, log, full, ok) ==
  IF lines = <<>> THEN [log |-> log, full |-> full, thrown |-> FALSE]
  ELSE LET line == Head(lines) IN
    IF line.kind = "sentinel"
    THEN IF ok THEN ProcessLines(Tail(lines), Append(log, DoneEvent), full, ok)
         ELSE [log |-> Append(log, WriteFail), full |-> full, thrown |-> TRUE]
    ELSE IF line.kind = "delta"
    THEN IF ok THEN ProcessLines(Tail(lines), Append(log, ContentEvent(line.c)),
                                 Append(full, line.c), ok)
         ELSE [log |-> Append(log, WriteFail), full |-> full, thrown |-> TRUE]
    ELSE ProcessLines(Tail(lines), log, full, ok)

\* ---------------------------------------------------------------- actions
Init ==
  /\ pc = "idle"
  /\ via = "main"
  /\ endpoint = "query"
  /\ method = "GET"
  /\ hasBody = FALSE
  /\ text = NoText
  /\ stream = "absent"
  /\ responseStarted = FALSE
  /\ resLog = <<>>
  /\ calls = <<>>
  /\ matches = <<>>
  /\ references = <<>>
  /\ fullResponse = <<>>
  /\ reads = 0
  /\ failedCall = "none"
  /\ failMsg = ""
  /\ escaped = FALSE
  /\ sinkOk = TRUE
  /\ bibleDataCache = [loaded |-> FALSE, data |-> <<>>]
  /\ bibleFile \in FileStates
  /\ credentials \in [openai : BOOLEAN, pinecone : BOOLEAN]
  /\ unit = NoUnit

\* a request arrives and the handler runs to its first await
Receive ==
  /\ pc = "idle"
  /\ \E e \in AllEndpoints, m \in Methods, b \in BOOLEAN, t \in Texts,
        s \in StreamValues :
       /\ b \/ (t = NoText /\ s = "absent")
       /\ e \in Endpoints \/ ~b
       /\ endpoint' = e
       /\ method' = m
       /\ hasBody' = b
       /\ text' = t
       /\ stream' = s
       /\ sinkOk' = TRUE
       /\ IF RequiresShared(e) /\ ~ModuleLoads(credentials)
          THEN \* the function crashes while loading; no handler runs
               Set([Failed(Fresh, "init", InitErrMsg) EXCEPT
                      !.pc = "done", !.escaped = TRUE])
          ELSE IF e = "index" THEN Set(IndexHandler(Fresh, m))
          ELSE IF e = "status" THEN Set(StatusEntry(Fresh, m))
          ELSE Set(HandlerEntry(Fresh, m, b, t))
  /\ UNCHANGED <<bibleFile, credentials, unit>>

\* the invocation is over; the instance, and with it the module-level cache,
\* stays warm for the next request
Recycle ==
  /\ pc = "done"
  /\ endpoint' = "query"
  /\ method' = "GET"
  /\ hasBody' = FALSE
  /\ text' = NoText
  /\ stream' = "absent"
  /\ sinkOk' = TRUE
  /\ Set(Fresh)
  /\ UNCHANGED <<bibleFile, credentials, unit>>

\* await getQueryEmbedding(...) settles
EmbedReturn ==
  /\ pc = "embed"
  /\ \/ Set([Cur EXCEPT !.pc = "search",
                        !.calls = Append(@, Call("search", <<>>, 0, 0))])
     \/ \E msg \in AxiosMsgs :
          Set(OuterCatch(Failed(Cur, "embed", msg), msg, sinkOk, FALSE))
  /\ UNCHANGED <<endpoint, method, hasBody, text, stream, sinkOk, bibleFile,
               credentials, unit>>

\* await searchPinecone(...) settles
SearchReturn ==
  /\ pc = "search"
  /\ \/ \E results \in QueryResults, strict \in BOOLEAN :
          LET c == [Cur EXCEPT !.matches = results]
              refs0 == searchPinecone(results)
          IN IF endpoint = "query"
             THEN Set(QueryAfterSearch(c, refs0, stream, sinkOk, bibleFile))
             ELSE Set(PrayerAfterSearch(c, refs0, stream, sinkOk, bibleFile, strict))
     \/ \E msg \in AxiosMsgs :
          Set(OuterCatch(Failed(Cur, "search", msg), msg, sinkOk, FALSE))
  /\ UNCHANGED <<endpoint, method, hasBody, text, stream, sinkOk, bibleFile,
               credentials, unit>>

\* await axios.post(chat/completions) settles
CompleteReturn ==
  /\ pc = "complete"
  /\ \/ \E content \in Completions : Set(CompleteOk(Cur, endpoint, content))
     \/ \E msg \in AxiosMsgs :
          Set(OuterCatch(Failed(Cur, "complete", msg), msg, sinkOk, FALSE))
  /\ UNCHANGED <<endpoint, method, hasBody, text, stream, sinkOk, bibleFile,
               credentials, unit>>

\* api/status.js: await index.describeIndexStats() or namespace.query() settles
StatusReturn ==
  /\ pc \in {"describe", "sample"}
  /\ \/ IF pc = "describe"
        THEN Set([Cur EXCEPT !.pc = "sample",
                             !.calls = Append(@, Call("sample", <<>>, 0, 0))])
        ELSE Set([Cur EXCEPT !.pc = "done",
                             !.resLog = Append(@, Json("status", <<>>, 0, "connected"))])
     \/ \E msg \in AxiosMsgs :
          Set([Failed(Cur, pc, msg) EXCEPT
                 !.pc = "done",
                 !.resLog = @ \o <<Status(500), Json("statusError", <<>>, 0, msg)>>])
  /\ UNCHANGED <<endpoint, method, hasBody, text, stream, sinkOk, bibleFile,
               credentials, unit>>

\* await fetch(chat/completions, stream: true) settles
FetchReturn ==
  /\ pc = "fetch"
  /\ \/ Set([Cur EXCEPT !.pc = "read"])
     \/ \E msg \in {FetchRejectMsg, NotOkMsg}, strict \in BOOLEAN :
          Set(StreamFail(Failed(Cur, "fetch", msg), msg, sinkOk, strict))
  /\ UNCHANGED <<endpoint, method, hasBody, text, stream, sinkOk, bibleFile,
               credentials, unit>>

\* await reader.read() settles: a chunk, the end of the stream, or an error
ReadReturn ==
  /\ pc = "read"
  /\ \E strict \in BOOLEAN :
       \/ /\ reads < MaxReads
          /\ \E chunk \in Chunks :
               LET r == ProcessLines(chunk, resLog, fullResponse, sinkOk)
                   c == [Cur EXCEPT !.resLog = r.log, !.fullResponse = r.full,
                                    !.reads = @ + 1]
               IN IF r.thrown
                  THEN Set(StreamFail(Failed(c, "write", WriteErrMsg), WriteErrMsg,
                                      sinkOk, strict))
                  ELSE Set(c)
       \/ IF sinkOk
          THEN Set(StreamReturn([Cur EXCEPT !.resLog = Append(@, DoneEvent)],
                                sinkOk, strict))
          ELSE Set(StreamFail(Failed([Cur EXCEPT !.resLog = Append(@, WriteFail)],
                                     "write", WriteErrMsg), WriteErrMsg, sinkOk, strict))
       \/ Set(StreamFail(Failed(Cur, "read", ReadErrMsg), ReadErrMsg, sinkOk, strict))
  /\ UNCHANGED <<endpoint, method, hasBody, text, stream, sinkOk, bibleFile,
               credentials, unit>>

\* the client goes away while the handler is suspended
ClientDisconnect ==
  /\ pc \in {"embed", "search", "complete", "fetch", "read"}
  /\ sinkOk
  /\ sinkOk' = FALSE
  /\ UNCHANGED <<pc, via, endpoint, method, hasBody, text, stream,
                 responseStarted, resLog, calls, matches, references,
                 fullResponse, reads, failedCall, failMsg, escaped,
                 bibleDataCache, bibleFile, credentials, unit>>

Next ==
  \/ Receive
  \/ Recycle
  \/ EmbedReturn
  \/ SearchReturn
  \/ CompleteReturn
  \/ StatusReturn
  \/ FetchReturn
  \/ ReadReturn
  \/ ClientDisconnect

Spec == Init /\ [][Next]_vars

\* ------------------------------------- the exported functions on their own
\* normalizeBookName on the names of the model (bookMappings[book] || book)
normalizeBookName(book) ==
  CASE book = "Jn" -> "John"
    [] book = "Rom" -> "Romans"
    [] book = "Ps" -> "Psalms"
    [] OTHER -> book

\* getVerseByReference: the index in bibleData of the verse found, 0 for null
getVerseByReference(bibleData, book, chapter, verse) ==
  IF Len(bibleData) = 0 THEN 0
  ELSE LET normalizedBook == normalizeBookName(book)
           hits == { i \in 1..Len(bibleData) :
                       /\ bibleData[i].book \in {book, normalizedBook}
                       /\ bibleData[i].chapter = ParseInt(chapter)
                       /\ bibleData[i].verse = ParseInt(verse) }
       IN IF hits = {} THEN 0 ELSE CHOOSE i \in hits : \A j \in hits : i <= j

\* metadata of every shape: each field present or absent
AnyMatches ==
  [book : {"", "John"}, chapter : {"", "3"}, verse : {"", "0", "16"},
   startVerse : {"", "1"}, text : {"", "For God so loved the world"},
   score : {9}]

\* references as searchPinecone leaves them, enriched or not
AnyRefs ==
  { [book |-> "John", chapter |-> 3, verse |-> 16,
     text |-> "For God so loved the world", score |-> 9, needsTextLookup |-> FALSE],
    [book |-> "John", chapter |-> 3, verse |-> 16,
     text |-> "", score |-> 9, needsTextLookup |-> FALSE],
    [book |-> "Romans", chapter |-> 8, verse |-> 28,
     text |-> Placeholder, score |-> 7, needsTextLookup |-> TRUE],
    [book |-> "Psalms", chapter |-> 23, verse |-> 1,
     text |-> Placeholder, score |-> 7, needsTextLookup |-> TRUE],
    [book |-> "Luke", chapter |-> 1, verse |-> 1,
     text |-> "", score |-> 0, needsTextLookup |-> FALSE] }

InitUnit ==
  /\ Init
  /\ ModuleLoads(credentials)

\* searchPinecone resolves with the mapped matches
CallSearchPinecone ==
  /\ unit.op = "none"
  /\ \E results \in SeqsUpTo(AnyMatches, MaxMatches) :
       unit' = [NoUnit EXCEPT !.op = "search", !.matches = results,
                              !.out = searchPinecone(results)]
  /\ UNCHANGED <<bibleDataCache, bibleFile>>

\* loadBibleData()
CallLoadBibleData ==
  /\ unit.op = "none"
  /\ LET ld == loadBibleData(bibleDataCache, bibleFile)
     IN /\ unit' = [NoUnit EXCEPT !.op = "load", !.ds = ld.ret,
                                  !.hit = bibleDataCache.loaded]
        /\ bibleDataCache' = ld.cache
  /\ UNCHANGED bibleFile

\* lookupVerseText(references)
CallLookupVerseText ==
  /\ unit.op = "none"
  /\ \E refs \in SeqsUpTo(AnyRefs, MaxMatches) :
       LET ld == loadBibleData(bibleDataCache, bibleFile)
       IN /\ unit' = [NoUnit EXCEPT !.op = "lookup", !.refs = refs,
                                    !.out = lookupVerseText(refs, ld.ret),
                                    !.ds = ld.ret, !.hit = bibleDataCache.loaded]
          /\ bibleDataCache' = ld.cache
  /\ UNCHANGED bibleFile

\* lookupVerseText(enriched), enriched being the result of the previous call
CallLookupVerseTextAgain ==
  /\ unit.op \in {"lookup", "relookup"}
  /\ LET ld == loadBibleData(bibleDataCache, bibleFile)
     IN /\ unit' = [NoUnit EXCEPT !.op = "relookup", !.refs = unit.out,
                                  !.out = lookupVerseText(unit.out, ld.ret),
                                  !.ds = ld.ret, !.hit = bibleDataCache.loaded,
                                  !.prevOut = unit.out, !.prevDs = unit.ds]
        /\ bibleDataCache' = ld.cache
  /\ UNCHANGED bibleFile

\* getVerseByReference(book, chapter, verse)
CallGetVerseByReference ==
  /\ unit.op = "none"
  /\ \E book \in {"John", "Jn", "Luke"}, chapter \in {"3"}, verse \in {"16", "1"} :
       LET ld == loadBibleData(bibleDataCache, bibleFile)
       IN /\ unit' = [NoUnit EXCEPT !.op = "getVerse", !.ds = ld.ret,
                                    !.hit = bibleDataCache.loaded,
                                    !.found = getVerseByReference(ld.ret, book, chapter, verse)]
          /\ bibleDataCache' = ld.cache
  /\ UNCHANGED bibleFile

\* one pass of the read loop of streamOpenAIResponse over a decoded chunk,
\* the client being connected
CallRelayChunk ==
  /\ unit.op \in {"none", "relay"}
  /\ \E chunk \in Chunks :
       LET cur == IF unit.op = "relay" THEN unit ELSE NoUnit
           r == ProcessLines(chunk, cur.log, cur.full, TRUE)
       IN /\ cur.n < MaxReads
          /\ unit' = [NoUnit EXCEPT !.op = "relay", !.lines = cur.lines \o chunk,
                                    !.log = r.log, !.full = r.full, !.n = cur.n + 1]
  /\ UNCHANGED <<bibleDataCache, bibleFile>>

\* where the read after an upstream line ends: not at this line, right after
\* its newline, or inside the line
CutKinds == {"none", "newline", "inside"}

\* the two pieces chunk.split('\n') yields of a line cut inside: the first
\* still starts with 'data: ' but is not a complete JSON text (nor '[DONE]'),
\* so JSON.parse throws on it; the second does not start with 'data: '
HeadPiece(line) ==
  IF line.kind = "other" THEN line ELSE [kind |-> "malformed", c |-> ""]
TailPiece(line) == [kind |-> "other", c |-> ""]

\* the decoded chunks, each as its split lines, of the upstream lines read
\* with the given cuts (cur: the lines of the chunk being filled)
RECURSIVE ChunksOf(_, _, _)
ChunksOf(lines, cuts, cur) ==
  IF lines = <<>> THEN (IF cur = <<>> THEN <<>> ELSE <<cur>>)
  ELSE LET line == Head(lines) IN
    IF Head(cuts) = "none"
    THEN ChunksOf(Tail(lines), Tail(cuts), Append(cur, line))
    ELSE IF Head(cuts) = "newline"
    THEN <<Append(cur, line)>> \o ChunksOf(Tail(lines), Tail(cuts), <<>>)
    ELSE <<Append(cur, HeadPiece(line))>>
           \o ChunksOf(Tail(lines), Tail(cuts), <<TailPiece(line)>>)

\* the while loop of streamOpenAIResponse over the reads of one stream, the
\* client being connected: the lines of each chunk, then [DONE] at done
RECURSIVE RelayChunks(_, _, _)
RelayChunks(chunks, log, full) ==
  IF chunks = <<>> THEN [log |-> Append(log, DoneEvent), full |-> full]
  ELSE LET r == ProcessLines(Head(chunks), log, full, TRUE)
       IN RelayChunks(Tail(chunks), r.log, r.full)

\* streamOpenAIResponse run twice over the same upstream lines, delivered by
\* the reader in two ways
CallRelayChunkings ==
  /\ unit.op = "none"
  /\ \E lines \in Chunks :
       \E cutsA, cutsB \in [1..Len(lines) -> CutKinds] :
         LET a == RelayChunks(ChunksOf(lines, cutsA, <<>>), <<>>, <<>>)
             b == RelayChunks(ChunksOf(lines, cutsB, <<>>), <<>>, <<>>)
         IN unit' = [NoUnit EXCEPT !.op = "chunkings", !.lines = lines,
                                   !.log = a.log, !.full = a.full,
                                   !.log2 = b.log, !.full2 = b.full]
  /\ UNCHANGED <<bibleDataCache, bibleFile>>

\* the caller is done with the result
Return ==
  /\ unit.op # "none"
  /\ unit' = NoUnit
  /\ UNCHANGED <<bibleDataCache, bibleFile>>

\* the dataset file appears, disappears or is replaced between two calls
FileChange ==
  /\ \E f \in FileStates \ {bibleFile} : bibleFile' = f
  /\ UNCHANGED <<bibleDataCache, unit>>

UnitFrame ==
  UNCHANGED <<pc, via, endpoint, method, hasBody, text, stream,
              responseStarted, resLog, calls, matches, references,
              fullResponse, reads, failedCall, failMsg, escaped, sinkOk,
              credentials>>

NextUnit ==
  \/ CallSearchPinecone /\ UnitFrame
  \/ CallLoadBibleData /\ UnitFrame
  \/ CallLookupVerseText /\ UnitFrame
  \/ CallLookupVerseTextAgain /\ UnitFrame
  \/ CallGetVerseByReference /\ UnitFrame
  \/ CallRelayChunk /\ UnitFrame
  \/ CallRelayChunkings /\ UnitFrame
  \/ Return /\ UnitFrame
  \/ FileChange /\ UnitFrame

SpecUnit == InitUnit /\ [][NextUnit]_vars

\* ----------------------------------------------------------- observations
\* the SSE events that reached the client, in order
Writes(log) == SelectSeq(log, LAMBDA e : e.op = "write")

CountOf(seq, P(_)) == Cardinality({i \in 1..Len(seq) : P(seq[i])})

IsDone(e) == e.op = "write" /\ e.t = "DONE"
IsError(e) == e.op = "write" /\ e.t = "error"
IsJson(e) == e.op = "json"
IsEnd(e) == e.op = "end"

\* the embedding and the index query of the request both succeeded
SearchSucceeded ==
  /\ \E i \in 1..Len(calls) : calls[i].api = "search"
  /\ pc \notin {"embed", "search"}
  /\ failedCall \notin {"embed", "search"}

\* res.json bodies of the query endpoint that carry a references array
IsQueryPayload(e) ==
  e.op = "json" /\ e.t \in {"noMatches", "noText", "answer"}

\* ----------------------------------------------------------------- claims
\* C1: with the client connected, a streaming response carries the line
\* data: [DONE] exactly once, as the last thing written, however the
\* upstream completion ends (sentinel, disconnect, rejection, mid-stream error).
C1_DoneExactlyOnce ==
  (sinkOk /\ HeadersSent(resLog)) =>
    LET w == Writes(resLog) IN
      /\ CountOf(w, IsDone) <= 1
      /\ \A i \in 1..Len(w) : IsDone(w[i]) => i = Len(w)
      /\ pc = "done" => CountOf(w, IsDone) = 1

\* C2: the events of a stream come in the required order: one reference
\* (query) or context (prayer) event, one priming {content: ""} event, then
\* only content fragments, an error event or the terminator; no reference or
\* context event follows a content event.
C2_EventOrder ==
  LET w == Writes(resLog) IN
    /\ Len(w) >= 1 =>
         w[1].t = (IF endpoint = "query" THEN "references" ELSE "prayer_context")
    /\ Len(w) >= 2 => w[2] = PrimingEvent
    /\ \A i \in 3..Len(w) :
         /\ w[i].t \in {"content", "error", "DONE"}
         /\ w[i] # PrimingEvent

\* C3: a failure after the first SSE bytes (the completion request or a read
\* of its stream fails) is reported in-band: no status() or json() call
\* follows the first write, and exactly one {error} event is written,
\* followed by [DONE].
C3_InBandFailure ==
  (pc = "done" /\ sinkOk /\ failedCall \in {"fetch", "read"}) =>
    LET w == Writes(resLog) IN
      /\ \A i, j \in 1..Len(resLog) :
           (resLog[i].op = "write" /\ i < j) =>
             resLog[j].op \notin {"status", "json"}
      /\ CountOf(w, IsError) = 1
      /\ Len(w) >= 2 /\ IsError(w[Len(w) - 1]) /\ IsDone(w[Len(w)])

\* C4: once the handler is through with a streaming response, it has closed
\* it: it called res.end() (a res.json call, which ends a response too, is
\* counted as closing).
C4_StreamClosed ==
  (pc = "done" /\ HeadersSent(resLog)) =>
    CountOf(resLog, IsEnd) + CountOf(resLog, IsJson) >= 1

\* C5: when the embedding succeeds and the search returns zero matches, the
\* answer is a 200 with an empty references array and a defined fallback
\* message or prayer, never a 500.
C5_NoMatchesIs200 ==
  (pc = "done" /\ SearchSucceeded /\ matches = <<>>) =>
    /\ \A i \in 1..Len(resLog) : resLog[i].op # "status"
    /\ \E i \in 1..Len(resLog) :
         /\ resLog[i].op = "json"
         /\ resLog[i].t \in {"noMatches", "fallbackPrayer"}
         /\ resLog[i].refs = <<>>
         /\ resLog[i].s \notin {"", Null}

\* C6: a POST whose primary text is missing or empty, also one without a
\* parsed body, is answered 400 and causes no upstream call.
C6_MissingTextIs400 ==
  (pc = "done" /\ endpoint \in Endpoints /\ ModuleLoads(credentials)
   /\ method = "POST" /\ (~hasBody \/ text \in {NoText, ""})) =>
    /\ Len(resLog) = 2
    /\ resLog[1] = Status(400)
    /\ resLog[2].op = "json"
    /\ calls = <<>>

\* C7: in a non-streaming request (stream absent or false), a failed
\* embedding, search or completion call ends the request at once with
\* status(500).json whose details is that error's message; the failed call is
\* the last upstream call of the request and was issued once.
C7_UpstreamFailureIs500 ==
  (stream \in {"absent", "false"} /\ failedCall \in {"embed", "search", "complete"}) =>
    /\ pc = "done"
    /\ Len(resLog) = 2
    /\ resLog[1] = Status(500)
    /\ resLog[2].op = "json" /\ resLog[2].t = "error500"
    /\ resLog[2].s = failMsg
    /\ Last(calls).api = failedCall
    /\ CountOf(calls, LAMBDA c : c.api = failedCall) = 1

C7_Witness ==
  /\ pc = "done"
  /\ stream = "false"
  /\ failedCall = "search"
  /\ failMsg = "Network Error"
  /\ Len(calls) = 2
  /\ Last(resLog).s = "Network Error"

\* C8: after a successful embedding and search, and with the client
\* connected, the response is an event stream exactly when stream is the
\* boolean true; otherwise it is one JSON payload and no SSE bytes.
C8_StreamIffRequested ==
  (pc = "done" /\ sinkOk /\ SearchSucceeded) =>
    IF IsTrue(stream)
    THEN HeadersSent(resLog) /\ CountOf(resLog, IsJson) = 0
    ELSE ~HeadersSent(resLog) /\ CountOf(resLog, IsJson) = 1

\* C9: the references array of a non-streaming query answer is sorted by
\* non-increasing score.
C9_ReferencesSorted ==
  \A i \in 1..Len(resLog) :
    (endpoint = "query" /\ IsQueryPayload(resLog[i])) =>
      \A k \in 1..(Len(resLog[i].refs) - 1) :
        resLog[i].refs[k].score >= resLog[i].refs[k + 1].score

C9_Witness ==
  /\ pc = "done"
  /\ endpoint = "query"
  /\ \E i \in 1..Len(resLog) :
       /\ IsQueryPayload(resLog[i])
       /\ Len(resLog[i].refs) = 2
       /\ resLog[i].refs[1].score > resLog[i].refs[2].score

\* C10: the references array of a non-streaming query answer has one entry
\* per match of the index, in the order of the matches, each with the book,
\* chapter, verse and score its match carries.
C10_ReferencesMirrorMatches ==
  \A i \in 1..Len(resLog) :
    (endpoint = "query" /\ IsQueryPayload(resLog[i])) =>
      LET refs == resLog[i].refs IN
        /\ Len(refs) = Len(matches)
        /\ \A k \in 1..Len(refs) :
             /\ matches[k].book # "" => refs[k].book = matches[k].book
             /\ matches[k].chapter # "" =>
                  refs[k].chapter = ParseInt(matches[k].chapter)
             /\ matches[k].verse # "" =>
                  refs[k].verse = ParseInt(matches[k].verse)
             /\ refs[k].score = matches[k].score

C10_Witness ==
  /\ pc = "done"
  /\ endpoint = "query"
  /\ Len(matches) = 2
  /\ matches[1].book # matches[2].book
  /\ bibleDataCache.loaded /\ Len(bibleDataCache.data) > 0
  /\ \E i \in 1..Len(resLog) :
       /\ resLog[i].op = "json" /\ resLog[i].t = "answer"
       /\ Len(resLog[i].refs) = 2
       /\ \E k \in 1..2 : resLog[i].refs[k].text = Placeholder

\* the texts of a reference sequence, entry by entry
TextsOf(refs) == [i \in 1..Len(refs) |-> refs[i].text]

SameKey(v, ref) ==
  v.book = ref.book /\ v.chapter = ref.chapter /\ v.verse = ref.verse

\* the fragments of the upstream data lines that carry a non-empty delta
DeltasOf(lines) ==
  LET d == SelectSeq(lines, LAMBDA l : l.kind = "delta")
  IN [i \in 1..Len(d) |-> d[i].c]

\* the fragments of the {content} events written after the priming event
ContentOf(log) ==
  LET w == SelectSeq(log, LAMBDA e : e.op = "write" /\ e.t = "content"
                                     /\ e # PrimingEvent)
  IN [i \in 1..Len(w) |-> w[i].s]

\* the completion requests among the upstream calls, whichever the transport
CompletionRequests(cs) ==
  LET k == SelectSeq(cs, LAMBDA c : c.api \in {"complete", "fetch"})
  IN [i \in 1..Len(k) |-> [ctx |-> k[i].ctx, temp |-> k[i].temp,
                           maxTok |-> k[i].maxTok]]

\* a reference that still carries the sentinel instead of a verse text
IsTextless(r) == r.needsTextLookup /\ r.text = Placeholder
RealTextCount(refs) ==
  Cardinality({i \in 1..Len(refs) : refs[i].text # "" /\ ~IsTextless(refs[i])})

\* C11: enrichment is idempotent: with the dataset the same at both calls,
\* enriching the result of lookupVerseText again gives the same texts, entry
\* by entry.
C11_EnrichmentIdempotent ==
  (unit.op = "relookup" /\ unit.ds = unit.prevDs) =>
    TextsOf(unit.out) = TextsOf(unit.prevOut)

C11_Witness ==
  /\ unit.op = "relookup"
  /\ unit.ds = unit.prevDs
  /\ Len(unit.ds) > 0
  /\ Len(unit.out) = 2
  /\ unit.out[1].text = BibleData[2].text
  /\ unit.out[2].text = Placeholder

\* C12: with either credential missing no endpoint serves a request: no
\* handler makes any call on a response.
C12_NoServiceWithoutCredentials ==
  ~ModuleLoads(credentials) => resLog = <<>>

\* C13: once a write has failed because the client is gone, no exception
\* leaves the handler and the upstream completion stream is not read again.
C13_DisconnectCaught ==
  failedCall = "write" => (~escaped /\ pc \notin {"fetch", "read"})

\* C14: lookupVerseText returns as many references as it got, in the same
\* order; a reference whose (book, chapter, verse) the dataset holds with a
\* non-empty text gets that text and keeps its other fields, every other
\* reference is returned as it came; without a dataset the input comes back
\* unchanged; the cached dataset is the dataset the call worked on.
C14_LookupFrame ==
  unit.op = "lookup" =>
    /\ Len(unit.out) = Len(unit.refs)
    /\ \A i \in 1..Len(unit.refs) :
         LET hits == { j \in 1..Len(unit.ds) :
                         SameKey(unit.ds[j], unit.refs[i]) /\ unit.ds[j].text # "" }
         IN IF hits # {}
            THEN \E j \in hits :
                   unit.out[i] = [unit.refs[i] EXCEPT !.text = unit.ds[j].text]
            ELSE unit.out[i] = unit.refs[i]
    /\ Len(unit.ds) = 0 => unit.out = unit.refs
    /\ unit.ds \in {<<>>, BibleData}
    /\ bibleDataCache.loaded => bibleDataCache.data = unit.ds

C14_Witness ==
  /\ unit.op = "lookup"
  /\ Len(unit.refs) = 2
  /\ unit.out[1].text # unit.refs[1].text
  /\ unit.out[2] = unit.refs[2]
  /\ unit.refs[2].book = "Psalms"

\* C15 as stated: every match without text comes back flagged needsTextLookup
\* with the placeholder as its text, whatever its other metadata; a match with
\* text comes back with that text and without the flag.
C15_TextlessAlwaysFlagged ==
  unit.op = "search" =>
    \A i \in 1..Len(unit.matches) :
      IF unit.matches[i].text = ""
      THEN unit.out[i].needsTextLookup /\ unit.out[i].text = Placeholder
      ELSE ~unit.out[i].needsTextLookup /\ unit.out[i].text = unit.matches[i].text

\* C15 amended: a match without text comes back flagged with the placeholder
\* exactly when its metadata identifies a verse (a book, a non-zero chapter and
\* a non-zero verse or startVerse); a textless match that identifies no verse
\* keeps the empty text and is not flagged; a match with text comes back with
\* that text and without the flag.
C15_TextlessFlaggedWhenIdentified ==
  unit.op = "search" =>
    \A i \in 1..Len(unit.matches) :
      LET m == unit.matches[i]
          r == unit.out[i]
          identified == /\ m.book # ""
                        /\ m.chapter \notin {"", "0"}
                        /\ (IF m.verse # "" THEN m.verse ELSE m.startVerse)
                             \notin {"", "0"}
      IN IF m.text # "" THEN ~r.needsTextLookup /\ r.text = m.text
         ELSE IF identified THEN r.needsTextLookup /\ r.text = Placeholder
         ELSE ~r.needsTextLookup /\ r.text = ""

C15_Witness ==
  /\ unit.op = "search"
  /\ Len(unit.matches) = 2
  /\ unit.matches[1].text = "" /\ unit.matches[1].verse = ""
  /\ unit.matches[1].startVerse = "" /\ unit.matches[1].book # ""
  /\ unit.out[1].text = "" /\ ~unit.out[1].needsTextLookup
  /\ unit.matches[2].text = "" /\ unit.out[2].needsTextLookup

\* C16: with the client connected, the relay writes one {content} event per
\* upstream data line with a non-empty delta, in arrival order and unchanged,
\* and fullResponse is their concatenation; lines that are malformed or carry
\* no delta produce nothing, no error event, and do not stop the relay.
C16_RelayFaithful ==
  unit.op = "relay" =>
    /\ ContentOf(unit.log) = DeltasOf(unit.lines)
    /\ unit.full = DeltasOf(unit.lines)
    /\ \A i \in 1..Len(unit.log) :
         unit.log[i].op = "write" /\ unit.log[i].t \in {"content", "DONE"}

C16_Witness ==
  /\ unit.op = "relay"
  /\ Len(unit.lines) >= 3
  /\ unit.lines[1].kind = "delta"
  /\ unit.lines[2].kind = "malformed"
  /\ unit.lines[3].kind = "delta"
  /\ unit.full = <<"ace", "Pe">>

\* C17: once the cache holds a dataset, no call replaces or changes it, and
\* every call that loads the dataset gets the cached one, whatever the file
\* has become.
C17_CacheLoadedOnce ==
  [][bibleDataCache.loaded =>
       /\ bibleDataCache' = bibleDataCache
       /\ unit'.op \in {"load", "lookup", "relookup", "getVerse"} =>
            unit'.ds = bibleDataCache.data]_vars

C17_Witness ==
  /\ unit.op = "load"
  /\ unit.hit
  /\ bibleDataCache.loaded
  /\ unit.ds = <<>>
  /\ bibleFile = "full"

\* C18: every SSE event but the terminator carries well-formed JSON: it was
\* serialised, or it was spliced from a text without a double quote.
C18_FramesAreJson ==
  \A i \in 1..Len(resLog) :
    (resLog[i].op = "write" /\ resLog[i].t # "DONE") =>
      (resLog[i].enc = "json" \/ resLog[i].s \notin QuotedMsgs)

\* C19: for the same request and the same search result, the buffered and
\* the streamed mode issue the same completion requests (same verse context,
\* same temperature, same token budget, and one exactly when the other), at
\* the orchestrator's temperature: 0.7 for answers, 0.8 for prayers.
C19_SameCompletionRequest ==
  (pc = "search" /\ endpoint \in Endpoints) =>
    \A results \in QueryResults :
      LET c == [Cur EXCEPT !.matches = results]
          refs0 == searchPinecone(results)
          after(st) ==
            IF endpoint = "query"
            THEN QueryAfterSearch(c, refs0, st, TRUE, bibleFile)
            ELSE PrayerAfterSearch(c, refs0, st, TRUE, bibleFile, FALSE)
          buffered == CompletionRequests(after("false").calls)
          streamed == CompletionRequests(after("true").calls)
      IN /\ buffered = streamed
         /\ \A i \in 1..Len(streamed) :
              streamed[i].temp = (IF endpoint = "query" THEN 7 ELSE 8)

\* C20: a reference that still carries the placeholder after enrichment is
\* in no prompt context, and is counted neither in the query handler's
\* usable references nor in the prayer handler's verseCount.
C20_OnlyRealTextInContext ==
  /\ \A i \in 1..Len(calls) : \A k \in 1..Len(calls[i].ctx) :
       ~IsTextless(calls[i].ctx[k])
  /\ \A i \in 1..Len(resLog) :
       (resLog[i].t = "prayer_context" \/ (resLog[i].op = "json" /\ resLog[i].t = "prayer")) =>
         resLog[i].n = RealTextCount(references)
  /\ (endpoint = "query" /\ pc \in {"complete", "fetch"}) =>
       RealTextCount(references) > 0

\* C21: a request to /api/bible-query or /api/generate-prayer is answered in
\* one way only: json() is called at most once, and never on a response that
\* carries SSE events (a response with SSE events has no json() call at all).
C21_OneResponseKind ==
  (endpoint \in Endpoints /\ ModuleLoads(credentials)) =>
    /\ CountOf(resLog, IsJson) <= 1
    /\ Writes(resLog) # <<>> => CountOf(resLog, IsJson) = 0

\* C22: what streamOpenAIResponse relays depends on the upstream lines only,
\* not on how the reader delivers them: two chunkings of the same lines give
\* the same content events, and these carry all the upstream deltas in order.
C22_ChunkingIndependent ==
  unit.op = "chunkings" =>
    /\ ContentOf(unit.log) = ContentOf(unit.log2)
    /\ unit.full = unit.full2
    /\ ContentOf(unit.log) = DeltasOf(unit.lines)

====
